---- MODULE Spec2Model ----
(***************************************************************************)
(* simple-confusion-matrix (scm.matrix, scm.generate).                     *)
(*                                                                         *)
(* Python values are modelled with their run-time type:                    *)
(*   a str is a sequence of one-character strings,                         *)
(*   an int is [t |-> "int"] with numerator n and denominator 1,           *)
(*   a float is [t |-> "float"] holding the exact rational n/d in lowest   *)
(*   terms (nz marks IEEE negative zero).                                  *)
(* Grids, rows and argument lists are sequences; Python index k is the     *)
(* sequence index k + 1.                                                   *)
(*                                                                         *)
(* Float arithmetic is exact here: binary rounding of sums and quotients   *)
(* is not modelled. str(float) keeps at most ReprDigits digits after the   *)
(* point, and "%.kf" rounds the exact value half-to-even; for the values   *)
(* the input sets below produce, a tie only arises for a value that is     *)
(* exact in binary, where this is what Python prints.                      *)
(***************************************************************************)
EXTENDS Integers, Sequences, FiniteSets, TLC

\* ---------------------------------------------------------------- bounds
MaxObs == 2        \* longest actual / predicted / weight list passed in
MaxLabels == 2     \* longest explicit label list passed in
MaxRows == 2       \* most rows of a CSV file
ReprDigits == 16   \* digits after the point kept by the model of str(float)
MaxGrid == 2       \* most rows and most columns of a grid passed to MatrixResult

\* ------------------------------------------------------------- str values
Abs(k) == IF k < 0 THEN -k ELSE k

\* code point of a character (ord)
Ord(ch) ==
    CASE ch = " " -> 32 [] ch = "-" -> 45 [] ch = "." -> 46
      [] ch = "0" -> 48 [] ch = "1" -> 49 [] ch = "2" -> 50 [] ch = "3" -> 51
      [] ch = "4" -> 52 [] ch = "5" -> 53 [] ch = "6" -> 54 [] ch = "7" -> 55
      [] ch = "8" -> 56 [] ch = "9" -> 57 [] ch = ":" -> 58
      [] ch = "A" -> 65 [] ch = "B" -> 66
      [] ch = "a" -> 97 [] ch = "p" -> 112 [] ch = "x" -> 120

\* a < b for str: lexicographic by code point, a proper prefix is smaller
RECURSIVE StrLess(_, _)
StrLess(a, b) ==
    IF b = <<>> THEN FALSE
    ELSE IF a = <<>> THEN TRUE
    ELSE IF Head(a) # Head(b) THEN Ord(Head(a)) < Ord(Head(b))
    ELSE StrLess(Tail(a), Tail(b))

\* list.sort() of a list holding the distinct strings of S
RECURSIVE SortedList(_)
SortedList(S) ==
    IF S = {} THEN <<>>
    ELSE LET m == CHOOSE x \in S : \A y \in S \ {x} : StrLess(x, y)
         IN  <<m>> \o SortedList(S \ {m})

\* ---------------------------------------------------------- numeric values
RECURSIVE Gcd(_, _)
Gcd(a, b) == IF b = 0 THEN a ELSE Gcd(b, a % b)

IntV(k) == [t |-> "int", n |-> k, d |-> 1, nz |-> FALSE, s |-> <<>>]

\* the float n/d (d > 0), in lowest terms
FloatV(n, d) ==
    LET g == Gcd(Abs(n), d)
    IN  [t |-> "float", n |-> n \div g, d |-> d \div g, nz |-> FALSE, s |-> <<>>]

NegZero == [t |-> "float", n |-> 0, d |-> 1, nz |-> TRUE, s |-> <<>>]

StrV(str) == [t |-> "str", n |-> 0, d |-> 1, nz |-> FALSE, s |-> str]

IsNum(v) == v.t \in {"int", "float"}
IsFloat(v) == v.t = "float"

\* a + b on numbers: int + int is an int, anything with a float is a float
NumAdd(a, b) ==
    LET n == a.n * b.d + b.n * a.d
        d == a.d * b.d
    IN  IF a.t = "int" /\ b.t = "int" THEN IntV(a.n + b.n)
        ELSE IF n = 0 /\ (a.nz /\ b.nz) THEN NegZero
        ELSE FloatV(n, d)

\* a / b on numbers, b # 0: true division, always a float
NumDiv(a, b) ==
    LET n == a.n * b.d
        d == a.d * b.n
        negative == (a.n < 0 \/ a.nz) # (b.n < 0 \/ b.nz)
    IN  IF n = 0 THEN (IF negative THEN NegZero ELSE FloatV(0, 1))
        ELSE IF d < 0 THEN FloatV(-n, -d)
        ELSE FloatV(n, d)

IsZero(v) == v.n = 0
IsPositive(v) == v.n > 0

\* ------------------------------------------------- str() and "%.kf" % value
DigitChar(k) ==
    CASE k = 0 -> "0" [] k = 1 -> "1" [] k = 2 -> "2" [] k = 3 -> "3"
      [] k = 4 -> "4" [] k = 5 -> "5" [] k = 6 -> "6" [] k = 7 -> "7"
      [] k = 8 -> "8" [] k = 9 -> "9"

\* decimal digits of k >= 0
RECURSIVE Digits(_)
Digits(k) ==
    IF k < 10 THEN <<DigitChar(k)>>
    ELSE Digits(k \div 10) \o <<DigitChar(k % 10)>>

\* the first k digits of rem/d after the decimal point (0 <= rem < d)
RECURSIVE FracDigits(_, _, _)
FracDigits(rem, d, k) ==
    IF k = 0 \/ rem = 0 THEN <<>>
    ELSE <<DigitChar((rem * 10) \div d)>> \o FracDigits((rem * 10) % d, d, k - 1)

\* k zeros
RECURSIVE Zeros(_)
Zeros(k) == IF k <= 0 THEN <<>> ELSE <<"0">> \o Zeros(k - 1)

RECURSIVE Pow10(_)
Pow10(k) == IF k <= 0 THEN 1 ELSE 10 * Pow10(k - 1)

Sign(v) == IF v.n < 0 \/ v.nz THEN <<"-">> ELSE <<>>

\* str(v) of an int
IntStr(v) == Sign(v) \o Digits(Abs(v.n))

\* str(v) of a float: shortest form, at least one digit after the point
FloatStr(v) ==
    LET a == Abs(v.n)
        frac == FracDigits(a % v.d, v.d, ReprDigits)
    IN  Sign(v) \o Digits(a \div v.d) \o <<".">>
          \o (IF frac = <<>> THEN <<"0">> ELSE frac)

\* str(v)
PyStr(v) ==
    IF v.t = "str" THEN v.s
    ELSE IF v.t = "int" THEN IntStr(v)
    ELSE FloatStr(v)

\* "%.kf" % v of a float, k >= 0: rounded half-to-even to k digits
FixedFormat(v, k) ==
    LET scaled == Abs(v.n) * Pow10(k)
        q0 == scaled \div v.d
        r == scaled % v.d
        q == IF 2 * r > v.d \/ (2 * r = v.d /\ q0 % 2 = 1) THEN q0 + 1 ELSE q0
        fr == Digits(q % Pow10(k))
    IN  Sign(v) \o Digits(q \div Pow10(k))
          \o (IF k = 0 THEN <<>> ELSE <<".">> \o Zeros(k - Len(fr)) \o fr)

\* --------------------------------------------------------------- the state
VARIABLES
    columns,    \* the file load_csv read and what it returned, if it was called
    call,       \* the arguments of the ConfusionMatrix(...) call, if any
    raised,     \* the exception ConfusionMatrix(...) raised ("" for none)
    matrix,     \* the ConfusionMatrix object (self), if constructed
    first,      \* the first generate call on the object and its outcome
    last,       \* the latest generate call on the object and its outcome, or
                \* a MatrixResult built from a grid directly (called is FALSE)
    rendered,   \* to_list() of the latest MatrixResult, if it was called
    text        \* to_plaintext() of the latest MatrixResult, if it was called:
                \* the text returned, and self.data as it was before the call

vars == <<columns, call, raised, matrix, first, last, rendered, text>>

\* Python's None and a present value
None == [some |-> FALSE, val |-> <<>>]
Some(v) == [some |-> TRUE, val |-> v]

\* ------------------------------------------------------------- input sets
LabelValues == {<<"A", "B">>, <<"B">>}
WeightValues == {FloatV(-1, 2), FloatV(1, 2)}
WeightTexts == {<<"0", ".", "5">>, <<"1">>}
MatrixTypes == {"COUNTS", "PERCENTAGES", "PERCENTAGES_PER_ROW"}
DecimalsValues == {-1, 0, 2}
RepeatDecimals == {-1, 2}      \* max_decimals of the calls that are repeated
CellValues == {StrV(<<"a", ":", " ", "B">>), IntV(0), FloatV(-1, 2)}

\* the rectangular grids of at most MaxGrid rows and MaxGrid columns
Grids ==
    UNION {[1..r -> [1..c -> CellValues]] : r \in 0..MaxGrid, c \in 0..MaxGrid}

SeqsUpTo(S, k) == UNION {[1..m -> S] : m \in 0..k}

\* ------------------------------------------------- ConfusionMatrix.__init__
MsgActual == "Actual and predicted labels differ in length"
MsgWeight == "Weights and predicted labels differ in length"

\* __init__ without the check of the weights' length
InitRaisesActualOnly(actual, predicted, weight) ==
    IF Len(actual) # Len(predicted) THEN MsgActual ELSE ""

\* the exception __init__ raises for these arguments, "" when it returns
InitRaises(actual, predicted, weight) ==
    IF Len(actual) # Len(predicted) THEN MsgActual
    ELSE IF weight.some /\ Len(weight.val) # Len(predicted) THEN MsgWeight
    ELSE ""

\* self.labels after an __init__ that leaves all_labels.update(predicted) out
InitLabelsActualOnly(actual, predicted, labels) ==
    IF labels.some THEN labels.val
    ELSE SortedList({actual[i] : i \in DOMAIN actual})

\* self.labels after __init__
InitLabels(actual, predicted, labels) ==
    IF labels.some THEN labels.val
    ELSE SortedList({actual[i] : i \in DOMAIN actual}
                      \cup {predicted[i] : i \in DOMAIN predicted})

\* self after a returning __init__
InitSelf(actual, predicted, weight, labels, actual_prefix, predicted_prefix, corner) ==
    [actual |-> actual, actual_prefix |-> actual_prefix,
     predicted |-> predicted, predicted_prefix |-> predicted_prefix,
     corner |-> corner,
     weight |-> IF weight.some THEN Some(weight.val) ELSE None,
     labels |-> InitLabels(actual, predicted, labels)]

\* ------------------------------------------------- ConfusionMatrix.generate
\* indices[l] = i + 1 for the last i with labels[i] = l
Indices(labels) ==
    [l \in {labels[i] : i \in DOMAIN labels} |->
        CHOOSE i \in DOMAIN labels :
            labels[i] = l /\ \A j \in DOMAIN labels : labels[j] = l => j <= i]

HeaderRow(self) ==
    <<StrV(self.corner)>>
      \o [i \in 1..Len(self.labels) |-> StrV(self.predicted_prefix \o self.labels[i])]

DataRow(self, l) ==
    <<StrV(self.actual_prefix \o l)>> \o [i \in 1..Len(self.labels) |-> IntV(0)]

\* result when generate keeps filling the grid of the call before
ReusedGrid(self) ==
    IF last.status = "ok" /\ Len(last.data) = Len(self.labels) + 1
    THEN last.data
    ELSE <<HeaderRow(self)>> \o [k \in 1..Len(self.labels) |-> DataRow(self, self.labels[k])]

\* result after the header and data loops
NewGrid(self) ==
    <<HeaderRow(self)>> \o [k \in 1..Len(self.labels) |-> DataRow(self, self.labels[k])]

\* result[y][x] with Python's indices
Cell(result, y, x) == result[y + 1][x + 1]

SetCell(result, y, x, v) ==
    [result EXCEPT ![y + 1] = [@ EXCEPT ![x + 1] = v]]

Outcome(status, data, at, key) ==
    [status |-> status, data |-> data, at |-> at, key |-> key]

\* the "fill in counts" loop with one of three slips: "transposed" swaps the
\* two indices of the cell, "overwrite" assigns the weight instead of adding
\* it, "skip" passes over an observation with an unknown label
RECURSIVE FillCountsSlip(_, _, _, _, _)
FillCountsSlip(self, indices, result, i, slip) ==
    IF i >= Len(self.actual) THEN Outcome("ok", result, -1, <<>>)
    ELSE IF self.actual[i + 1] \notin DOMAIN indices
         THEN IF slip = "skip" THEN FillCountsSlip(self, indices, result, i + 1, slip)
              ELSE Outcome("KeyError", <<>>, i, self.actual[i + 1])
    ELSE IF self.predicted[i + 1] \notin DOMAIN indices
         THEN IF slip = "skip" THEN FillCountsSlip(self, indices, result, i + 1, slip)
              ELSE Outcome("KeyError", <<>>, i, self.predicted[i + 1])
    ELSE LET index_act == indices[self.actual[i + 1]]
             index_pred == indices[self.predicted[i + 1]]
             y == IF slip = "transposed" THEN index_pred ELSE index_act
             x == IF slip = "transposed" THEN index_act ELSE index_pred
             weight == IF self.weight.some THEN self.weight.val[i + 1] ELSE IntV(1)
         IN  IF ~IsNum(weight) THEN Outcome("TypeError", <<>>, i, <<>>)
             ELSE FillCountsSlip(self, indices,
                                 SetCell(result, y, x,
                                         IF slip = "overwrite" THEN weight
                                         ELSE NumAdd(Cell(result, y, x), weight)),
                                 i + 1, slip)

FillCountsTransposed(self, indices, result, i) ==
    FillCountsSlip(self, indices, result, i, "transposed")

FillCountsOverwrite(self, indices, result, i) ==
    FillCountsSlip(self, indices, result, i, "overwrite")

FillCountsSkipUnknown(self, indices, result, i) ==
    FillCountsSlip(self, indices, result, i, "skip")

\* the "fill in counts" loop from observation i on
RECURSIVE FillCounts(_, _, _, _)
FillCounts(self, indices, result, i) ==
    IF i >= Len(self.actual) THEN Outcome("ok", result, -1, <<>>)
    ELSE IF self.actual[i + 1] \notin DOMAIN indices
         THEN Outcome("KeyError", <<>>, i, self.actual[i + 1])
    ELSE IF self.predicted[i + 1] \notin DOMAIN indices
         THEN Outcome("KeyError", <<>>, i, self.predicted[i + 1])
    ELSE LET index_act == indices[self.actual[i + 1]]
             index_pred == indices[self.predicted[i + 1]]
             weight == IF self.weight.some THEN self.weight.val[i + 1] ELSE IntV(1)
         IN  IF ~IsNum(weight) THEN Outcome("TypeError", <<>>, i, <<>>)
             ELSE FillCounts(self, indices,
                             SetCell(result, index_act, index_pred,
                                     NumAdd(Cell(result, index_act, index_pred), weight)),
                             i + 1)

\* sum after adding the cells x.. of row y + 1
RECURSIVE SumRow(_, _, _, _, _)
SumRow(result, L, y, x, sum) ==
    IF x >= L THEN sum
    ELSE SumRow(result, L, y, x + 1, NumAdd(sum, Cell(result, y + 1, x + 1)))

\* sum after adding the rows y.. of the interior
RECURSIVE SumAll(_, _, _, _)
SumAll(result, L, y, sum) ==
    IF y >= L THEN sum
    ELSE SumAll(result, L, y + 1, SumRow(result, L, y, 0, sum))

\* every interior cell of row y + 1 divided by sum
DivideRow(result, L, y, sum) ==
    [result EXCEPT ![y + 2] =
        [x \in DOMAIN @ |-> IF x = 1 THEN @[x] ELSE NumDiv(@[x], sum)]]

\* the PERCENTAGES branch guarded by sum != 0 instead of sum > 0
PercentagesNonZeroGuard(result, L) ==
    LET sum == SumAll(result, L, 0, FloatV(0, 1))
    IN  IF ~IsZero(sum)
        THEN Outcome("ok",
                     [r \in DOMAIN result |->
                        IF r = 1 THEN result[r]
                        ELSE [x \in DOMAIN result[r] |->
                                IF x = 1 THEN result[r][x]
                                ELSE NumDiv(result[r][x], sum)]],
                     -1, <<>>)
        ELSE Outcome("ok", result, -1, <<>>)

\* the PERCENTAGES branch
Percentages(result, L) ==
    LET sum == SumAll(result, L, 0, FloatV(0, 1))
    IN  IF IsPositive(sum)
        THEN Outcome("ok",
                     [r \in DOMAIN result |->
                        IF r = 1 THEN result[r]
                        ELSE [x \in DOMAIN result[r] |->
                                IF x = 1 THEN result[r][x]
                                ELSE NumDiv(result[r][x], sum)]],
                     -1, <<>>)
        ELSE Outcome("ok", result, -1, <<>>)

\* the PERCENTAGES_PER_ROW branch with a zero guard that leaves an empty row
\* as it is
RECURSIVE PercentagesPerRowGuarded(_, _, _)
PercentagesPerRowGuarded(result, L, y) ==
    IF y >= L THEN Outcome("ok", result, -1, <<>>)
    ELSE LET sum == SumRow(result, L, y, 0, IntV(0))
         IN  IF IsZero(sum) THEN PercentagesPerRowGuarded(result, L, y + 1)
             ELSE PercentagesPerRowGuarded(DivideRow(result, L, y, sum), L, y + 1)

\* the PERCENTAGES_PER_ROW branch from row y on
RECURSIVE PercentagesPerRow(_, _, _)
PercentagesPerRow(result, L, y) ==
    IF y >= L THEN Outcome("ok", result, -1, <<>>)
    ELSE LET sum == SumRow(result, L, y, 0, IntV(0))
         IN  IF IsZero(sum) THEN Outcome("ZeroDivisionError", <<>>, y, <<>>)
             ELSE PercentagesPerRow(DivideRow(result, L, y, sum), L, y + 1)

\* the outcome of self.generate(matrix_type, max_decimals): the grid of the
\* MatrixResult, or the exception that propagates
GenerateOutcome(self, matrix_type) ==
    LET L == Len(self.labels)
        filled == FillCounts(self, Indices(self.labels), NewGrid(self), 0)
    IN  IF filled.status # "ok" THEN filled
        ELSE IF matrix_type = "PERCENTAGES" THEN Percentages(filled.data, L)
        ELSE IF matrix_type = "PERCENTAGES_PER_ROW"
             THEN PercentagesPerRow(filled.data, L, 0)
        ELSE filled

\* --------------------------------------------------------------- MatrixResult
\* _cell_to_string that formats a float only when its value is not whole
CellToStringNonIntegral(max_decimals, c) ==
    IF max_decimals > -1 /\ IsFloat(c) /\ c.d # 1 THEN FixedFormat(c, max_decimals)
    ELSE PyStr(c)

\* self._cell_to_string(c) of a MatrixResult with this max_decimals
CellToString(max_decimals, c) ==
    IF max_decimals > -1 /\ IsFloat(c) THEN FixedFormat(c, max_decimals)
    ELSE PyStr(c)

ToList(data, max_decimals) ==
    [r \in DOMAIN data |->
        [c \in DOMAIN data[r] |-> CellToString(max_decimals, data[r][c])]]

\* self.separator
Separator == <<" ">>

RECURSIVE Spaces(_)
Spaces(k) == IF k <= 0 THEN <<>> ELSE <<" ">> \o Spaces(k - 1)

\* value.ljust(width), value.rjust(width)
Ljust(value, width) == value \o Spaces(width - Len(value))
Rjust(value, width) == Spaces(width - Len(value)) \o value

Max(a, b) == IF a >= b THEN a ELSE b

\* the padding of to_plaintext when only column 0 is left-justified
JustifyColumnOnly(value, width, x, y) ==
    IF x = 0 THEN Ljust(value, width) ELSE Rjust(value, width)

\* the padded cell of column x in row y (Python's indices)
Justify(value, width, x, y) ==
    IF x = 0 \/ y = 0 THEN Ljust(value, width) ELSE Rjust(value, width)

\* widths and num_cols after the first loop of to_plaintext has run over the
\* rows r.. (r from 1)
RECURSIVE WidthsLoop(_, _, _, _, _)
WidthsLoop(data, max_decimals, r, widths, num_cols) ==
    IF r > Len(data) THEN [widths |-> widths, num_cols |-> num_cols]
    ELSE LET nc == IF Len(widths) = 0 THEN Len(data[r]) ELSE num_cols
             w0 == IF Len(widths) = 0 THEN [i \in 1..nc |-> 0] ELSE widths
         IN  WidthsLoop(data, max_decimals, r + 1,
                        [x \in 1..nc |->
                           Max(w0[x], Len(CellToString(max_decimals, data[r][x])))],
                        nc)

\* result after the cells x.. of row y were appended
RECURSIVE AppendCells(_, _, _, _, _, _, _)
AppendCells(r, max_decimals, widths, num_cols, y, x, result) ==
    IF x >= num_cols THEN result
    ELSE LET value == CellToString(max_decimals, r[x + 1])
         IN  AppendCells(r, max_decimals, widths, num_cols, y, x + 1,
                         result \o Justify(value, widths[x + 1], x, y)
                                \o (IF x < num_cols - 1 THEN Separator ELSE <<>>))

\* result after the rows y.. were appended
RECURSIVE AppendRows(_, _, _, _, _, _)
AppendRows(data, max_decimals, widths, num_cols, y, result) ==
    IF y >= Len(data) THEN result
    ELSE AppendRows(data, max_decimals, widths, num_cols, y + 1,
                    AppendCells(data[y + 1], max_decimals, widths, num_cols, y, 0, result)
                      \o <<"\n">>)

\* self.to_plaintext() of a MatrixResult with this data and max_decimals
ToPlaintext(data, max_decimals) ==
    LET w == WidthsLoop(data, max_decimals, 1, <<>>, 0)
    IN  AppendRows(data, max_decimals, w.widths, w.num_cols, 0, <<>>)

\* -------------------------------------------------------------------- load_csv
LoadCsv(rows, col_act, col_pred, col_weight, header) ==
    LET body == IF header /\ rows # <<>> THEN Tail(rows) ELSE rows
    IN  [rows |-> rows, header |-> header,
         actual |-> [i \in DOMAIN body |-> body[i][(col_act - 1) + 1]],
         predicted |-> [i \in DOMAIN body |-> body[i][(col_pred - 1) + 1]],
         weight |-> IF ~col_weight.some THEN None
                    ELSE Some([i \in DOMAIN body |->
                                 StrV(body[i][(col_weight.val - 1) + 1])])]

\* ------------------------------------------------------------------- actions
NoCall == [called |-> FALSE, matrix_type |-> "", max_decimals |-> 0,
           status |-> "", data |-> <<>>, at |-> -1, key |-> <<>>]

CallRecord(matrix_type, max_decimals, out) ==
    [called |-> TRUE, matrix_type |-> matrix_type, max_decimals |-> max_decimals,
     status |-> out.status, data |-> out.data, at |-> out.at, key |-> out.key]

Init ==
    /\ columns = None
    /\ call = None
    /\ raised = ""
    /\ matrix = None
    /\ first = NoCall
    /\ last = NoCall
    /\ rendered = None
    /\ text = None

\* ConfusionMatrix(actual, predicted, weight=weight, labels=labels)
DoConstruct(actual, predicted, weight, labels) ==
    /\ call' = Some([actual |-> actual, predicted |-> predicted,
                     weight |-> weight, labels |-> labels])
    /\ raised' = InitRaises(actual, predicted, weight)
    /\ matrix' = IF raised' = ""
                 THEN Some(InitSelf(actual, predicted, weight, labels,
                                    <<"a", ":", " ">>, <<"p", ":", " ">>, <<"x">>))
                 ELSE None
    /\ UNCHANGED <<columns, first, last, rendered, text>>

\* a caller constructs the object from lists of its own
Construct ==
    /\ ~columns.some /\ ~call.some /\ last.status = ""
    /\ \E actual \in SeqsUpTo(LabelValues, MaxObs),
          predicted \in SeqsUpTo(LabelValues, MaxObs),
          weight \in {None} \cup {Some(w) : w \in SeqsUpTo(WeightValues, MaxObs)},
          labels \in {None} \cup {Some(l) : l \in SeqsUpTo(LabelValues, MaxLabels)} :
            DoConstruct(actual, predicted, weight, labels)

\* matrix.generate(matrix_type=matrix_type, max_decimals=max_decimals) with
\* max_decimals one of decimals; with record set, the first call on the
\* object is kept in first
GenerateCall(record, decimals) ==
    /\ matrix.some
    /\ \E matrix_type \in MatrixTypes :
         LET out == GenerateOutcome(matrix.val, matrix_type)
         IN  \E max_decimals \in decimals :
               /\ last' = CallRecord(matrix_type, max_decimals, out)
               /\ first' = IF record /\ ~first.called THEN last' ELSE first
    /\ rendered' = None
    /\ text' = None
    /\ UNCHANGED <<columns, call, raised, matrix>>

Generate == GenerateCall(FALSE, DecimalsValues)

GenerateAgain == GenerateCall(TRUE, RepeatDecimals)

\* result.to_list()
CallToList ==
    /\ last.called /\ last.status = "ok"
    /\ ~rendered.some
    /\ rendered' = Some(ToList(last.data, last.max_decimals))
    /\ UNCHANGED <<columns, call, raised, matrix, first, last, text>>

\* MatrixResult(data, max_decimals=max_decimals) on a grid of the caller's own
NewResult ==
    /\ ~columns.some /\ ~call.some /\ last.status = ""
    /\ \E data \in Grids, max_decimals \in DecimalsValues :
         last' = [NoCall EXCEPT !.status = "ok", !.data = data,
                                !.max_decimals = max_decimals]
    /\ UNCHANGED <<columns, call, raised, matrix, first, rendered, text>>

\* result.to_plaintext()
CallToPlaintext ==
    /\ last.status = "ok"
    /\ ~text.some
    /\ text' = Some([before |-> last.data,
                      result |-> ToPlaintext(last.data, last.max_decimals)])
    /\ UNCHANGED <<columns, call, raised, matrix, first, last, rendered>>

\* load_csv(input_file, 1, 2, col_weight=col_weight, header=header)
CallLoadCsv ==
    /\ ~columns.some /\ ~call.some
    /\ \E rows \in SeqsUpTo(LabelValues \X LabelValues \X WeightTexts, MaxRows),
          col_weight \in {None, Some(3)},
          header \in BOOLEAN :
            columns' = Some(LoadCsv(rows, 1, 2, col_weight, header))
    /\ UNCHANGED <<call, raised, matrix, first, last, rendered, text>>

\* scm.generate.generate: ConfusionMatrix(actual, predicted, weight=weight,
\* labels=None) on what load_csv returned
ConstructLoaded ==
    /\ columns.some /\ ~call.some
    /\ DoConstruct(columns.val.actual, columns.val.predicted,
                   columns.val.weight, None)

Next == Construct \/ Generate \/ CallToList

Spec == Init /\ [][Next]_vars

\* one object, generate called over and over
NextRepeat == Construct \/ GenerateAgain

SpecRepeat == Init /\ [][NextRepeat]_vars

\* the command line's path: load_csv, ConfusionMatrix, generate
NextCsv == CallLoadCsv \/ ConstructLoaded \/ Generate \/ CallToList

SpecCsv == Init /\ [][NextCsv]_vars

\* a MatrixResult, returned by generate or built from a grid, turned into text
NextText == Construct \/ Generate \/ NewResult \/ CallToPlaintext

SpecText == Init /\ [][NextText]_vars

\* ===================================================================== claims
\* what the claims speak of, stated without the operators of generate
Observed(self) ==
    {self.actual[i] : i \in DOMAIN self.actual}
      \cup {self.predicted[i] : i \in DOMAIN self.predicted}

LabelSet(self) == {self.labels[k] : k \in DOMAIN self.labels}

DuplicateFree(labels) ==
    \A j, k \in DOMAIN labels : labels[j] = labels[k] => j = k

Covered(self) == Observed(self) \subseteq LabelSet(self)

\* the row / column a label is tallied in: its last position in labels
Position(self, l) ==
    CHOOSE k \in DOMAIN self.labels :
        self.labels[k] = l /\ \A j \in DOMAIN self.labels : self.labels[j] = l => j <= k

\* the observations (1-based) tallied in row r, column c
Matching(self, r, c) ==
    {i \in DOMAIN self.actual :
        Position(self, self.actual[i]) = r /\ Position(self, self.predicted[i]) = c}

\* the weight of observation i as the fraction <<numerator, denominator>>
WeightOf(self, i) ==
    IF self.weight.some THEN <<self.weight.val[i].n, self.weight.val[i].d>> ELSE <<1, 1>>

\* the sum of the weights of the observations in S, as a fraction
RECURSIVE WeightSum(_, _)
WeightSum(self, S) ==
    IF S = {} THEN <<0, 1>>
    ELSE LET i == CHOOSE j \in S : TRUE
             w == WeightOf(self, i)
             rest == WeightSum(self, S \ {i})
         IN  <<w[1] * rest[2] + rest[1] * w[2], w[2] * rest[2]>>

\* the number v has the value of the fraction f
HasValue(v, f) == IsNum(v) /\ v.n * f[2] = f[1] * v.d

\* the interior cells of a grid, as <<row, column>> with rows and columns from 1
Interior(data) == (1..(Len(data) - 1)) \X (1..(Len(data) - 1))

\* the sum of the interior cells of a grid, as a fraction
RECURSIVE CellSum(_, _)
CellSum(data, S) ==
    IF S = {} THEN <<0, 1>>
    ELSE LET rc == CHOOSE x \in S : TRUE
             v == Cell(data, rc[1], rc[2])
             rest == CellSum(data, S \ {rc})
         IN  <<v.n * rest[2] + rest[1] * v.d, v.d * rest[2]>>

\* C1: with a duplicate-free label list that holds every observed label,
\* generate(COUNTS) returns a grid whose cell (r, c) is the sum of the weights
\* (1 each without weights) of exactly the observations with actual =
\* labels[r-1] and predicted = labels[c-1]; a cell no observation falls in is
\* the integer 0.
C1_CountsCells ==
    (/\ last.called /\ last.matrix_type = "COUNTS"
     /\ DuplicateFree(matrix.val.labels) /\ Covered(matrix.val))
    => /\ last.status = "ok"
       /\ \A rc \in Interior(last.data) :
            LET obs == {i \in DOMAIN matrix.val.actual :
                          /\ matrix.val.actual[i] = matrix.val.labels[rc[1]]
                          /\ matrix.val.predicted[i] = matrix.val.labels[rc[2]]}
                cell == Cell(last.data, rc[1], rc[2])
            IN  /\ HasValue(cell, WeightSum(matrix.val, obs))
                /\ obs = {} => cell = IntV(0)
                /\ (cell.t = "int")
                     = (\A i \in obs : ~matrix.val.weight.some
                                         \/ matrix.val.weight.val[i].t = "int")

\* C1 witness: a weighted COUNTS grid with a cell two observations fall in and
\* a cell none falls in
C1_Witness ==
    /\ last.called /\ last.matrix_type = "COUNTS" /\ last.status = "ok"
    /\ matrix.val.weight.some
    /\ DuplicateFree(matrix.val.labels) /\ Covered(matrix.val)
    /\ \E rc \in Interior(last.data) : Cardinality(Matching(matrix.val, rc[1], rc[2])) = 2
    /\ \E rc \in Interior(last.data) : Matching(matrix.val, rc[1], rc[2]) = {}

\* C2: without an explicit label list the labels are the distinct observed
\* values in ascending string order; a returned grid has L+1 rows of L+1
\* cells, row 0 is the corner followed by predicted_prefix + label, and row k
\* starts with actual_prefix + labels[k-1].
C2_DerivedLabelsAndShape ==
    (matrix.some /\ ~call.val.labels.some)
    => LET self == matrix.val
           L == Len(self.labels)
       IN  /\ LabelSet(self) = Observed(self)
           /\ \A k \in 1..(L - 1) : StrLess(self.labels[k], self.labels[k + 1])
           /\ (last.called /\ last.status = "ok")
              => /\ Len(last.data) = L + 1
                 /\ \A r \in DOMAIN last.data : Len(last.data[r]) = L + 1
                 /\ Cell(last.data, 0, 0) = StrV(self.corner)
                 /\ \A k \in 1..L :
                      /\ Cell(last.data, 0, k) = StrV(self.predicted_prefix \o self.labels[k])
                      /\ Cell(last.data, k, 0) = StrV(self.actual_prefix \o self.labels[k])

\* C2 witness: labels derived from observations given as B before AB, and a
\* grid returned for them
C2_Witness ==
    /\ matrix.some /\ ~call.val.labels.some
    /\ matrix.val.actual = <<<<"B">>, <<"A", "B">>>>
    /\ matrix.val.labels = <<<<"A", "B">>, <<"B">>>>
    /\ last.called /\ last.status = "ok"
    /\ Cell(last.data, 0, 2) = StrV(<<"p", ":", " ", "B">>)
    /\ Cell(last.data, 1, 0) = StrV(<<"a", ":", " ", "A", "B">>)

\* C3: whenever generate(COUNTS) returns, the interior cells sum to the sum of
\* the weights, or to the number of observations without weights.
C3_TallyConservation ==
    (last.called /\ last.matrix_type = "COUNTS" /\ last.status = "ok")
    => LET total == CellSum(last.data, Interior(last.data))
           given == WeightSum(matrix.val, DOMAIN matrix.val.actual)
       IN  /\ total[1] * given[2] = given[1] * total[2]
           /\ ~matrix.val.weight.some => total[1] = Len(matrix.val.actual) * total[2]

\* C3 witness: a COUNTS grid over an explicit label list with a repeated
\* label, from two weighted observations
C3_Witness ==
    /\ last.called /\ last.matrix_type = "COUNTS" /\ last.status = "ok"
    /\ matrix.val.weight.some /\ Len(matrix.val.actual) = 2
    /\ ~DuplicateFree(matrix.val.labels)

\* the observations (1-based) tallied in row r
InRow(self, r) ==
    {i \in DOMAIN self.actual : Position(self, self.actual[i]) = r}

\* the cell holds the raw tally of row r, column c: its value, and an int
\* unless a float weight was added
IsRawCell(self, cell, r, c) ==
    /\ HasValue(cell, WeightSum(self, Matching(self, r, c)))
    /\ (cell.t = "int")
         = (\A i \in Matching(self, r, c) : ~self.weight.some
                                             \/ self.weight.val[i].t = "int")

ZeroRows(self) ==
    {r \in DOMAIN self.labels : WeightSum(self, InRow(self, r))[1] = 0}

\* C5: under PERCENTAGES_PER_ROW a row whose raw total is 0 makes generate
\* fail with a division by zero at the first such row, and no MatrixResult is
\* returned; without such a row a MatrixResult is returned.
C5_PerRowZeroRow ==
    (last.called /\ last.matrix_type = "PERCENTAGES_PER_ROW" /\ Covered(matrix.val))
    => IF ZeroRows(matrix.val) # {}
       THEN /\ last.status = "ZeroDivisionError"
            /\ last.data = <<>>
            /\ last.at + 1 \in ZeroRows(matrix.val)
            /\ \A r \in ZeroRows(matrix.val) : last.at + 1 <= r
       ELSE last.status = "ok"

\* C5 witness: the second row is the first one with a raw total of 0
C5_Witness ==
    /\ last.called /\ last.matrix_type = "PERCENTAGES_PER_ROW"
    /\ Covered(matrix.val)
    /\ last.status = "ZeroDivisionError" /\ last.at = 1
    /\ ZeroRows(matrix.val) = {2}

\* C6: the constructor fails with a length-mismatch error, and yields no
\* object, exactly when len(actual) # len(predicted) or weight is given with
\* len(weight) # len(predicted); every object has lists of equal length.
C6_LengthMismatch ==
    call.some
    => LET a == call.val
           mismatch == \/ Len(a.actual) # Len(a.predicted)
                       \/ a.weight.some /\ Len(a.weight.val) # Len(a.predicted)
       IN  /\ mismatch => raised \in {MsgActual, MsgWeight} /\ ~matrix.some
           /\ raised = MsgActual => Len(a.actual) # Len(a.predicted)
           /\ ~mismatch => raised = "" /\ matrix.some
           /\ matrix.some
              => /\ Len(matrix.val.actual) = Len(matrix.val.predicted)
                 /\ matrix.val.weight.some
                    => Len(matrix.val.weight.val) = Len(matrix.val.actual)

\* C6 witness: actual and predicted agree in length, weight does not
C6_Witness ==
    /\ call.some /\ raised = MsgWeight /\ ~matrix.some
    /\ Len(call.val.actual) = Len(call.val.predicted)

\* the observations (1-based) with a label the label list lacks
Unknown(self) ==
    {i \in DOMAIN self.actual :
        self.actual[i] \notin LabelSet(self) \/ self.predicted[i] \notin LabelSet(self)}

\* C7: an explicit label list is taken as given, in its order, by a
\* constructor that does not check it; generate of any matrix type then
\* fails with the unknown label of the first observation that has one
\* (actual before predicted) and returns no MatrixResult.
C7_UnknownLabel ==
    (matrix.some /\ call.val.labels.some)
    => /\ matrix.val.labels = call.val.labels.val
       /\ (last.called /\ Unknown(matrix.val) # {})
          => LET i == CHOOSE j \in Unknown(matrix.val) :
                        \A k \in Unknown(matrix.val) : j <= k
             IN  /\ last.status = "KeyError"
                 /\ last.data = <<>>
                 /\ last.at + 1 = i
                 /\ last.key = IF matrix.val.actual[i] \notin LabelSet(matrix.val)
                               THEN matrix.val.actual[i]
                               ELSE matrix.val.predicted[i]

\* C7 witness: generate(PERCENTAGES_PER_ROW) fails at the second observation,
\* whose predicted label is unknown
C7_Witness ==
    /\ matrix.some /\ call.val.labels.some
    /\ last.called /\ last.matrix_type = "PERCENTAGES_PER_ROW"
    /\ last.status = "KeyError" /\ last.at = 1
    /\ matrix.val.actual[2] \in LabelSet(matrix.val)

\* the number of characters after the "." of str, -1 without a "."
DecimalsAfterPoint(str) ==
    IF \A k \in DOMAIN str : str[k] # "."
    THEN -1
    ELSE Len(str) - (CHOOSE k \in DOMAIN str : str[k] = ".")

\* the cell is a number with a whole value
IsIntegral(v) == IsNum(v) /\ v.d = 1

\* C8 as claimed: to_list renders a cell with exactly max_decimals digits
\* after the point only if it is a non-integral number and max_decimals >= 0;
\* strings and whole numbers, also those left by accumulation or
\* normalization, are rendered as str() does.
C8_Claim ==
    rendered.some
    => \A r \in DOMAIN last.data : \A c \in DOMAIN last.data[r] :
         LET v == last.data[r][c]
         IN  IF IsNum(v) /\ ~IsIntegral(v) /\ last.max_decimals >= 0
             THEN rendered.val[r][c] = FixedFormat(v, last.max_decimals)
             ELSE rendered.val[r][c] = PyStr(v)

\* C8 (amended): to_list renders a cell with exactly max_decimals digits
\* after the point exactly if it is a float, whole or not, and
\* max_decimals >= 0; strings and ints are rendered as str() does, and so is
\* every cell when max_decimals is -1. Every interior cell of a
\* PERCENTAGES_PER_ROW grid is a float, so with max_decimals >= 0 each has
\* exactly max_decimals digits after the point.
C8_CellFormatting ==
    rendered.some
    => LET md == last.max_decimals
           exact(str) == DecimalsAfterPoint(str) = IF md = 0 THEN -1 ELSE md
       IN  /\ \A r \in DOMAIN last.data : \A c \in DOMAIN last.data[r] :
                LET v == last.data[r][c]
                IN  IF IsFloat(v) /\ md >= 0
                    THEN /\ rendered.val[r][c] = FixedFormat(v, md)
                         /\ exact(rendered.val[r][c])
                    ELSE rendered.val[r][c] = PyStr(v)
           /\ (last.matrix_type = "PERCENTAGES_PER_ROW" /\ md >= 0)
              => \A rc \in Interior(last.data) : exact(rendered.val[rc[1] + 1][rc[2] + 1])

\* C8 witness: a cell that normalization left at the whole value 1.0 is
\* rendered as 1.00 with max_decimals = 2
C8_Witness ==
    /\ rendered.some /\ last.max_decimals = 2
    /\ \E rc \in Interior(last.data) :
         /\ Cell(last.data, rc[1], rc[2]) = FloatV(1, 1)
         /\ rendered.val[rc[1] + 1][rc[2] + 1] = <<"1", ".", "0", "0">>

C10_Claim ==
    columns.some
    => LET c == columns.val
           n == IF c.header /\ c.rows # <<>> THEN Len(c.rows) - 1 ELSE Len(c.rows)
       IN  /\ Len(c.actual) = n /\ Len(c.predicted) = n
           /\ c.weight.some
              => /\ Len(c.weight.val) = n
                 /\ \A i \in DOMAIN c.weight.val : IsFloat(c.weight.val[i])
           /\ last.called => last.status # "TypeError"

\* the number of columns of a rectangular grid
NumCols(data) == IF data = <<>> THEN 0 ELSE Len(data[1])

\* the rendered cell of row r, column c (from 1) of the latest MatrixResult
RenderedCell(r, c) == CellToString(last.max_decimals, last.data[r][c])

\* the greatest rendered length in column c, the header row included
ColumnWidth(c) ==
    CHOOSE w \in {Len(RenderedCell(r, c)) : r \in DOMAIN last.data} :
        \A r \in DOMAIN last.data : Len(RenderedCell(r, c)) <= w

\* the widths of the columns 1..n, in order
RECURSIVE ColumnWidths(_)
ColumnWidths(n) ==
    IF n = 0 THEN <<>> ELSE Append(ColumnWidths(n - 1), ColumnWidth(n))

\* the widths of the columns before column c, each with its separator
RECURSIVE Offset(_, _)
Offset(widths, c) ==
    IF c <= 1 THEN 0 ELSE Offset(widths, c - 1) + widths[c - 1] + 1

\* sum of the widths + number of columns - 1
WidthsAndSeparators(widths) == Offset(widths, Len(widths) + 1) - 1

\* the characters i..j of str are all spaces
AllSpaces(str, i, j) == \A k \in i..j : str[k] = " "

\* line holds the cells of row r: each padded to its column's width, to the
\* right of the cell in column 0 and in row 0 and to its left elsewhere, with
\* one space between neighbours and nothing else
IsRowLine(line, r, widths) ==
    LET n == Len(widths)
    IN  /\ Len(line) = IF n = 0 THEN 0 ELSE WidthsAndSeparators(widths)
        /\ \A c \in 1..n :
             LET v == RenderedCell(r, c)
                 from == Offset(widths, c) + 1
                 to == Offset(widths, c) + widths[c]
             IN  /\ IF c = 1 \/ r = 1
                    THEN /\ SubSeq(line, from, from + Len(v) - 1) = v
                         /\ AllSpaces(line, from + Len(v), to)
                    ELSE /\ SubSeq(line, to - Len(v) + 1, to) = v
                         /\ AllSpaces(line, from, to - Len(v))
                 /\ c < n => line[to + 1] = " "

\* the positions of the line breaks in str
LineBreaks(str) == {k \in DOMAIN str : str[k] = "\n"}

\* what str.split("\n") returns: the pieces between the line breaks
SplitLines(str) ==
    LET at(k) == IF k = 0 THEN 0
                 ELSE IF k = Cardinality(LineBreaks(str)) + 1 THEN Len(str) + 1
                 ELSE CHOOSE i \in LineBreaks(str) :
                        Cardinality({j \in LineBreaks(str) : j <= i}) = k
    IN  [k \in 1..(Cardinality(LineBreaks(str)) + 1) |->
           SubSeq(str, at(k - 1) + 1, at(k) - 1)]

\* C11 as claimed: to_plaintext pads every cell to the greatest rendered
\* length in its column, left-justified in column 0 and in row 0 and
\* right-justified elsewhere, joins the cells of a row by one space and the
\* rows by a line break, so that the lines of the text are the rows and all
\* have the length sum of widths + number of columns - 1; the grid is not
\* modified.
C11_Claim ==
    text.some
    => LET lines == SplitLines(text.val.result)
           widths == ColumnWidths(NumCols(last.data))
       IN  /\ last.data = text.val.before
           /\ Len(lines) = Len(last.data)
           /\ \A r \in DOMAIN lines :
                /\ IsRowLine(lines[r], r, widths)
                /\ Len(lines[r]) = WidthsAndSeparators(widths)

\* C11 (amended): to_plaintext pads every cell to the greatest rendered
\* length in its column, left-justified in column 0 and in row 0 and
\* right-justified elsewhere, joins the cells of a row by one space and ends
\* every row, the last one too, with a line break; with at least one column
\* every line has the length sum of widths + number of columns - 1, without
\* columns every line is empty; the grid is not modified.
C11_Plaintext ==
    text.some
    => LET str == text.val.result
           rows == Len(last.data)
           widths == ColumnWidths(NumCols(last.data))
           len == IF widths = <<>> THEN 0 ELSE WidthsAndSeparators(widths)
       IN  /\ last.data = text.val.before
           /\ Len(str) = rows * (len + 1)
           /\ \A r \in 1..rows :
                LET line == SubSeq(str, (r - 1) * (len + 1) + 1,
                                   r * (len + 1) - 1)
                IN  /\ IsRowLine(line, r, widths)
                    /\ \A k \in DOMAIN line : line[k] # "\n"
                    /\ str[r * (len + 1)] = "\n"

\* C11 witness: the text of a grid returned by generate in which a header
\* cell and an interior cell are both shorter than their columns
C11_Witness ==
    /\ text.some /\ last.called
    /\ \E c \in 2..NumCols(last.data) : Len(RenderedCell(1, c)) < ColumnWidth(c)
    /\ \E r \in 2..Len(last.data), c \in 2..NumCols(last.data) :
         Len(RenderedCell(r, c)) < ColumnWidth(c)

====
